---- MODULE Spec2Model ----
(***************************************************************************)
(* Model of the office-listing scraper (src/scraper/scraper.py): the       *)
(* record normalizer, the geocode resolver, the proximity deduplicator,    *)
(* the store merger and the orchestrating main() loop.                     *)
(*                                                                         *)
(* Encoding of Python values.  A value is a record tagged by t:            *)
(*   [t |-> "absent"]            the key is not in the mapping             *)
(*   [t |-> "none"]              None / JSON null                          *)
(*   [t |-> "float", k, d]       the number (k + d/10) * 1e-7, k an        *)
(*                               integer and d in 0..9: coordinates are    *)
(*                               counted in units of 1e-7 degree, the      *)
(*                               resolution round(x, 7) keeps, with one    *)
(*                               further decimal digit d                   *)
(*   [t |-> "int", n]            an integer                                *)
(*   [t |-> "str", s]            a string that is not a date               *)
(*   [t |-> "datestr", y, m, d]  the string "y-m-d"                        *)
(***************************************************************************)
EXTENDS Integers, Sequences, FiniteSets, TLC

VARIABLES
    file,          \* the persisted collection OUTPUT_FILE
    pc,            \* position of main(): "sources", "merge", "save", "done", "crashed", "killed"
    idx,           \* index into SCRAPERS of the next source to attempt
    all_listings,  \* main's all_listings
    errors,        \* main's errors: sequence of <<source_name, message>>
    final,         \* main's final (result of merge_with_existing)
    attempted,     \* source names in the order their loop iteration ran
    run,           \* number of the current invocation of main()
    outright,      \* sources of this run whose adapter raised or fetched nothing at all
    reads,         \* times this run has opened OUTPUT_FILE for reading
    writes,        \* times this run has opened OUTPUT_FILE for writing
    arg,           \* input of the pure-function specifications
    res            \* output of the pure-function specifications

vars == <<file, pc, idx, all_listings, errors, final, attempted, run, outright,
          reads, writes, arg, res>>

-----------------------------------------------------------------------------
(* Python values *)

Absent == [t |-> "absent"]
None == [t |-> "none"]
Flt(k, d) == [t |-> "float", k |-> k, d |-> d]
IntV(n) == [t |-> "int", n |-> n]
Str(s) == [t |-> "str", s |-> s]
DateStr(y, m, d) == [t |-> "datestr", y |-> y, m |-> m, d |-> d]

\* bool(v): Python truthiness, as used by `not lat`, `if address`, `x and y`
Truthy(v) ==
    CASE v.t = "absent" -> FALSE
      [] v.t = "none" -> FALSE
      [] v.t = "float" -> (v.k # 0 \/ v.d # 0)
      [] v.t = "int" -> v.n # 0
      [] v.t = "str" -> v.s # ""
      [] v.t = "datestr" -> TRUE

\* raw.get(key): an absent key reads as None
Get(v) == IF v.t = "absent" THEN None ELSE v

\* raw.get(key, default): only an absent key reads as the default
GetD(v, default) == IF v.t = "absent" THEN default ELSE v

IsNumber(v) == v.t \in {"float", "int"}

\* round(x, 7): to the nearest multiple of 1e-7, ties to even
Round7(v) ==
    IF v.t = "int" THEN v
    ELSE IF v.d < 5 THEN Flt(v.k, 0)
    ELSE IF v.d > 5 THEN Flt(v.k + 1, 0)
    ELSE IF v.k % 2 = 0 THEN Flt(v.k, 0) ELSE Flt(v.k + 1, 0)

Abs(x) == IF x < 0 THEN 0 - x ELSE x
Max(a, b) == IF a < b THEN b ELSE a

-----------------------------------------------------------------------------
(* deduplicate *)

EarthRadiusKm == 6371
\* math.radians: radians per degree, times 10^6
RadPerDegE6 == 17453
\* the threshold 0.1 km, in metres
ThresholdM == 100

\* micrometres of arc per 1e-7 degree on a sphere of radius EarthRadiusKm
MicroMetresPerUnit == (EarthRadiusKm * RadPerDegE6) \div 10000

\* Units of a coordinate stored in a listing (whole multiples of 1e-7 degree)
Units(v) == IF v.t = "int" THEN v.n * 10000000 ELSE v.k

(***************************************************************************)
(* haversine, in whole metres (rounded down).  For two points of one       *)
(* meridian (lng1 = lng2) the formula reduces to a = sin^2(dlat/2) and     *)
(* 6371 * 2 * asin(sqrt(a)) = 6371 * |dlat|: the model evaluates it on     *)
(* that case only, and every listing of the model that carries a           *)
(* longitude carries the same one.  Since the result is compared with a    *)
(* whole number of metres, rounding down keeps the comparison exact.       *)
(***************************************************************************)
haversine(lat1, lng1, lat2, lng2) ==
    CASE lng1 = lng2 ->
        LET dlat == Abs(lat2 - lat1)
        IN  IF dlat <= 100000
            THEN (dlat * MicroMetresPerUnit) \div 1000000
            ELSE ((dlat \div 100000) * MicroMetresPerUnit) \div 10

\* A persisted element that is not a mapping (it has no .get)
Junk == [junk |-> TRUE]
IsJunk(x) == "junk" \in DOMAIN x

\* The condition of the inner loop for one (listing, existing) pair:
\* "dup", "no", or "raise" when evaluating it raises
PairCheck(listing, existing) ==
    IF IsJunk(listing) THEN "raise"
    ELSE IF ~(Truthy(listing.lat) /\ Truthy(listing.lng)) THEN "no"
    ELSE IF IsJunk(existing) THEN "raise"
    ELSE IF ~(Truthy(existing.lat) /\ Truthy(existing.lng)) THEN "no"
    ELSE IF ~(IsNumber(listing.lat) /\ IsNumber(listing.lng)
              /\ IsNumber(existing.lat) /\ IsNumber(existing.lng)) THEN "raise"
    ELSE IF haversine(Units(listing.lat), Units(listing.lng),
                      Units(existing.lat), Units(existing.lng)) < ThresholdM
         THEN "dup"
         ELSE "no"

\* The inner loop `for existing in unique`, from position i on
RECURSIVE ScanUnique(_, _, _)
ScanUnique(listing, unique, i) ==
    IF i > Len(unique) THEN "no"
    ELSE LET c == PairCheck(listing, unique[i])
         IN  IF c = "no" THEN ScanUnique(listing, unique, i + 1) ELSE c

\* The outer loop `for listing in listings`, from position i on
RECURSIVE DedupFrom(_, _, _)
DedupFrom(listings, unique, i) ==
    IF i > Len(listings) THEN [raised |-> FALSE, unique |-> unique]
    ELSE LET c == ScanUnique(listings[i], unique, 1)
         IN  IF c = "raise" THEN [raised |-> TRUE, unique |-> unique]
             ELSE IF c = "dup" THEN DedupFrom(listings, unique, i + 1)
             ELSE DedupFrom(listings, Append(unique, listings[i]), i + 1)

deduplicate(listings) == DedupFrom(listings, <<>>, 1)

-----------------------------------------------------------------------------
(* calculate_months_on_market *)

IsLeap(y) == (y % 4 = 0 /\ y % 100 # 0) \/ y % 400 = 0

DaysInMonth(y, m) ==
    IF m \in {4, 6, 9, 11} THEN 30
    ELSE IF m = 2 THEN (IF IsLeap(y) THEN 29 ELSE 28)
    ELSE 31

\* datetime.strptime(s, "%Y-%m-%d") succeeds: otherwise ValueError (a string
\* that is no date) or TypeError (not a string), both caught by the caller
StrptimeOk(v) ==
    /\ v.t = "datestr"
    /\ v.y \in 1..9999
    /\ v.m \in 1..12
    /\ v.d \in 1..DaysInMonth(v.y, v.m)

\* Variant: the difference is returned without the floor at 0
calculate_months_unfloored(posting_date_str, today) ==
    IF ~Truthy(posting_date_str) THEN None
    ELSE IF StrptimeOk(posting_date_str)
    THEN IntV((today.y - posting_date_str.y) * 12 + (today.m - posting_date_str.m))
    ELSE None

\* today is date.today(), a record [y, m, d]
calculate_months_on_market(posting_date_str, today) ==
    IF ~Truthy(posting_date_str) THEN None
    ELSE IF StrptimeOk(posting_date_str)
    THEN LET months == (today.y - posting_date_str.y) * 12
                       + (today.m - posting_date_str.m)
         IN  IntV(Max(0, months))
    ELSE None

-----------------------------------------------------------------------------
(* geocode_address *)

(***************************************************************************)
(* The answers of the lookup service to the two queries, geo = <<o1, o2>>: *)
(* [r |-> "hit", lat, lng], [r |-> "miss"] (geocode returned None) or      *)
(* [r |-> "error"] (the call raised).  Both calls sit in one try block.    *)
(***************************************************************************)
geocode_address(address, geo) ==
    IF geo[1].r = "error" THEN <<None, None>>
    ELSE IF geo[1].r = "hit" THEN <<geo[1].lat, geo[1].lng>>
    ELSE IF address.t # "str" THEN <<None, None>>   \* address.split raises, caught
    ELSE IF geo[2].r = "hit" THEN <<geo[2].lat, geo[2].lng>>
    ELSE <<None, None>>

\* address.split(",")[0].strip() for the address strings of the model
FirstSegment(s) ==
    CASE s = "12 Bach Dang, Hai Chau" -> "12 Bach Dang"
      [] s = "5 Le Duan, Hai Chau" -> "5 Le Duan"
      [] s = " 7 Tran Phu ,Son Tra, Da Nang" -> "7 Tran Phu"
      [] OTHER -> s

\* The text an address contributes to an f-string
AddressText(address) == IF address.t = "str" THEN address.s ELSE "5"

\* The queries sent to the lookup service, in order: qualifier "full" is
\* the suffix ", Da Nang, Vietnam" written with diacritics, "simplified" the
\* suffix ", Da Nang, Vietnam" without
GeocodeQueries(address, geo) ==
    LET first == [text |-> AddressText(address), qualifier |-> "full"]
    IN  IF geo[1].r # "miss" THEN <<first>>
        ELSE IF address.t # "str" THEN <<first>>
        ELSE <<first, [text |-> FirstSegment(address.s), qualifier |-> "simplified"]>>

-----------------------------------------------------------------------------
(* normalize_listing *)

Discarded == [kind |-> "discard"]
Raised == [kind |-> "raise"]
Produced(l) == [kind |-> "listing", listing |-> l]

\* Coordinates after the `Geocode if no coordinates` block
Located(raw, geo) ==
    LET lat == Get(raw.lat)
        lng == Get(raw.lng)
        address == GetD(raw.address, Str(""))
    IN  IF (~Truthy(lat) \/ ~Truthy(lng)) /\ Truthy(address)
        THEN geocode_address(address, geo)
        ELSE <<lat, lng>>

MonthsOf(raw, today) ==
    LET months == Get(raw.monthsOnMarket)
    IN  IF months.t = "none" /\ Truthy(Get(raw.postingDate))
        THEN calculate_months_on_market(raw.postingDate, today)
        ELSE months

\* Variant: the discard test asks for both coordinates to be missing
normalize_listing_and(raw, source, geo, today) ==
    LET loc == Located(raw, geo)
        lat == loc[1]
        lng == loc[2]
    IN  IF ~Truthy(lat) /\ ~Truthy(lng) THEN Discarded
        ELSE IF ~(IsNumber(lat) /\ IsNumber(lng)) THEN Raised
        ELSE Produced([name |-> GetD(raw.name, Str("Unknown Office")),
                       address |-> GetD(raw.address, Str("")),
                       lat |-> Round7(lat),
                       lng |-> Round7(lng),
                       monthsOnMarket |-> MonthsOf(raw, today),
                       source |-> source])

\* The fields price, area, floors, year, singleFloor, grade, sourceUrl and
\* scrapedAt are copied or derived without influence on any other field
\* and are left out of the listing record.
normalize_listing(raw, source, geo, today) ==
    LET loc == Located(raw, geo)
        lat == loc[1]
        lng == loc[2]
    IN  IF ~Truthy(lat) \/ ~Truthy(lng) THEN Discarded
        ELSE IF ~(IsNumber(lat) /\ IsNumber(lng)) THEN Raised   \* round() raises TypeError
        ELSE Produced([name |-> GetD(raw.name, Str("Unknown Office")),
                       address |-> GetD(raw.address, Str("")),
                       lat |-> Round7(lat),
                       lng |-> Round7(lng),
                       monthsOnMarket |-> MonthsOf(raw, today),
                       source |-> source])

-----------------------------------------------------------------------------
(* merge_with_existing *)

(***************************************************************************)
(* The persisted file is [kind |-> "missing"] (OUTPUT_FILE.exists() is     *)
(* false), [kind |-> "unreadable"] (open or json.load raises),             *)
(* [kind |-> "nonlist"] (the document parses to a value that is not a      *)
(* list, so `existing + new_listings` raises TypeError) or                 *)
(* [kind |-> "list", data |-> <<...>>] (it parses to a list).              *)
(***************************************************************************)
Missing == [kind |-> "missing"]
Unreadable == [kind |-> "unreadable"]
NonList == [kind |-> "nonlist"]
Stored(data) == [kind |-> "list", data |-> data]

\* Variant: the new listings are put before the existing ones
merge_new_first(new_listings, f) ==
    LET all == IF f.kind = "list" THEN new_listings \o f.data ELSE new_listings
    IN  deduplicate(all)

merge_with_existing(new_listings, f) ==
    LET all == IF f.kind = "list" THEN f.data \o new_listings ELSE new_listings
    IN  deduplicate(all)

-----------------------------------------------------------------------------
(* main *)

\* The first configured sources of SCRAPERS, in configured order
Sources == <<"batdongsan.com.vn", "alonhadat.com.vn">>

\* The inner loop of main over one source's raw_listings; each element is
\* [raw, geo]: a raw record and the lookup service's answers for it
RECURSIVE NormalizeFrom(_, _, _, _, _)
NormalizeFrom(raw_listings, source, today, normalized, i) ==
    IF i > Len(raw_listings) THEN [raised |-> FALSE, normalized |-> normalized]
    ELSE LET o == normalize_listing(raw_listings[i].raw, source,
                                    raw_listings[i].geo, today)
         IN  IF o.kind = "raise" THEN [raised |-> TRUE, normalized |-> normalized]
             ELSE IF o.kind = "listing"
             THEN NormalizeFrom(raw_listings, source, today,
                                Append(normalized, o.listing), i + 1)
             ELSE NormalizeFrom(raw_listings, source, today, normalized, i + 1)

NormalizeBatch(raw_listings, source, today) ==
    NormalizeFrom(raw_listings, source, today, <<>>, 1)

(***************************************************************************)
(* What happens inside an adapter's scrape(): [fetch |-> "ok", items] (the *)
(* pages were fetched and parsed to items), [fetch |-> "failed"] (the      *)
(* browser could not be started or no page could be fetched: the adapter   *)
(* catches the exception and returns its empty list) or                    *)
(* [fetch |-> "raised"] (an exception leaves scrape()).                    *)
(***************************************************************************)
scrape(o) == IF o.fetch = "ok" THEN o.items ELSE <<>>

\* Variant: the listings normalized before the failure are kept
SourceResultPartial(all, errs, source, o, today) ==
    IF o.fetch = "raised"
    THEN [all_listings |-> all, errors |-> Append(errs, <<source, "adapter error">>)]
    ELSE LET b == NormalizeBatch(scrape(o), source, today)
         IN  IF b.raised
             THEN [all_listings |-> all \o b.normalized,
                   errors |-> Append(errs, <<source, "TypeError">>)]
             ELSE [all_listings |-> all \o b.normalized, errors |-> errs]

\* The body of `for source_name, scraper_class in SCRAPERS` for one source:
\* all_listings and errors after it
SourceResult(all, errs, source, o, today) ==
    IF o.fetch = "raised"
    THEN [all_listings |-> all, errors |-> Append(errs, <<source, "adapter error">>)]
    ELSE LET b == NormalizeBatch(scrape(o), source, today)
         IN  IF b.raised
             THEN [all_listings |-> all,
                   errors |-> Append(errs, <<source, "TypeError">>)]
             ELSE [all_listings |-> all \o b.normalized, errors |-> errs]

\* The loop `for source_name, scraper_class in SCRAPERS` from source i on,
\* outs[i] being what happens inside the adapter of source i
RECURSIVE RunSourcesFrom(_, _, _, _, _)
RunSourcesFrom(outs, today, all, errs, i) ==
    IF i > Len(Sources) THEN [all_listings |-> all, errors |-> errs]
    ELSE LET r == SourceResult(all, errs, Sources[i], outs[i], today)
         IN  RunSourcesFrom(outs, today, r.all_listings, r.errors, i + 1)

\* all_listings and errors when main reaches merge_with_existing
RunSources(outs, today) == RunSourcesFrom(outs, today, <<>>, <<>>, 1)

\* Variant: main leaves the loop after any source
NextPcEarly(i) == "merge"

\* Where main goes after the loop body of source i
NextPc(i) == IF i = Len(Sources) THEN "merge" ELSE "sources"

\* Variant: the except branch leaves the loop
AfterErrorBreak(i) == "merge"

\* The except branch of the loop: record the error and `continue`
AfterError(i) == NextPc(i)

\* The exit status main returns
ExitCode(errs) == IF errs = <<>> THEN 0 ELSE 1

-----------------------------------------------------------------------------
(* Inputs of the model *)

\* Longest adapter output (raw records of one source in one run)
MaxRaw == 2
\* Number of invocations of main() in a behaviour
MaxRuns == 2

SeqsUpTo(S, n) == UNION {[1..k -> S] : k \in 0..n}

Hit(lat, lng) == [r |-> "hit", lat |-> lat, lng |-> lng]
Miss == [r |-> "miss"]
Error == [r |-> "error"]

\* The meridian of the model's listings: 108.20000004 E, stored as 108.2
Lng0 == Flt(1082000000, 4)

\* 16.05 N and the points about 50 m and 150 m north of it
Lat0 == Flt(160500000, 0)
Lat50 == Flt(160504497, 0)
Lat150 == Flt(160513490, 0)

RawRecord(lat, lng, address, name, postingDate, monthsOnMarket) ==
    [lat |-> lat, lng |-> lng, address |-> address, name |-> name,
     postingDate |-> postingDate, monthsOnMarket |-> monthsOnMarket]

Plain(lat, lng, address) ==
    RawRecord(lat, lng, address, Str("Office"), Absent, Absent)

\* date.today() of the runs of Spec
RunDay == [y |-> 2024, m |-> 7, d |-> 15]

\* What an adapter may return for one item, with the lookup service's answers
SampleRaw ==
    { [raw |-> Plain(Lat0, Lng0, Str("12 Bach Dang")), geo |-> <<Miss, Miss>>],
      \* located by the second lookup, about 50 m from the first record
      [raw |-> Plain(None, None, Str("5 Le Duan, Hai Chau")),
       geo |-> <<Miss, Hit(Lat50, Lng0)>>],
      \* 91 N
      [raw |-> Plain(Flt(910000000, 0), Lng0, Absent), geo |-> <<Miss, Miss>>],
      \* coordinates delivered as text
      [raw |-> Plain(Str("16.05"), Str("108.2"), Absent), geo |-> <<Miss, Miss>>],
      \* nothing to locate the record with
      [raw |-> Plain(Absent, Absent, Str("")), geo |-> <<Miss, Miss>>],
      \* the lookup fails
      [raw |-> Plain(None, None, Str("5 Le Duan, Hai Chau")), geo |-> <<Error, Miss>>] }

ScrapeOutputs == SeqsUpTo(SampleRaw, MaxRaw)

AdapterOutcomes ==
    {[fetch |-> "ok", items |-> out] : out \in ScrapeOutputs}
        \cup {[fetch |-> "failed"], [fetch |-> "raised"]}

\* The persisted file before the first run
\* (the last one: a JSON array whose elements are not records, as [1, 2])
InitialFiles == {Missing, Unreadable, NonList, Stored(<<>>), Stored(<<Junk, Junk>>)}

NoArg == [op |-> "none"]

-----------------------------------------------------------------------------
(* Spec: runs of main() *)

Init ==
    /\ file \in InitialFiles
    /\ pc = "sources"
    /\ idx = 1
    /\ all_listings = <<>>
    /\ errors = <<>>
    /\ final = <<>>
    /\ attempted = <<>>
    /\ run = 1
    /\ outright = {}
    /\ reads = 0
    /\ writes = 0
    /\ arg = NoArg
    /\ res = NoArg

\* The sources that failed outright, after source i answered o
Outright(o) ==
    IF o.fetch \in {"failed", "raised"} THEN outright \cup {Sources[idx]} ELSE outright

\* One iteration of `for source_name, scraper_class in SCRAPERS` that reaches
\* all_listings.extend(normalized)
SourceSucceeds ==
    /\ pc = "sources"
    /\ \E o \in AdapterOutcomes :
         LET r == SourceResult(all_listings, errors, Sources[idx], o, RunDay)
         IN  /\ r.errors = errors
             /\ all_listings' = r.all_listings
             /\ outright' = Outright(o)
    /\ attempted' = Append(attempted, Sources[idx])
    /\ idx' = idx + 1
    /\ pc' = NextPc(idx)
    /\ UNCHANGED <<file, errors, final, run, reads, writes, arg, res>>

\* One iteration that ends in `except Exception`: the adapter raised, or
\* normalize_listing raised on one of its records
SourceFails ==
    /\ pc = "sources"
    /\ \E o \in AdapterOutcomes :
         LET r == SourceResult(all_listings, errors, Sources[idx], o, RunDay)
         IN  /\ r.errors # errors
             /\ errors' = r.errors
             /\ all_listings' = r.all_listings
             /\ outright' = Outright(o)
    /\ attempted' = Append(attempted, Sources[idx])
    /\ idx' = idx + 1
    /\ pc' = AfterError(idx)
    /\ UNCHANGED <<file, final, run, reads, writes, arg, res>>

\* Opening OUTPUT_FILE for reading: not when OUTPUT_FILE.exists() is false
ReadsOf(f) == IF f.kind = "missing" THEN 0 ELSE 1

\* final = merge_with_existing(all_listings); an exception leaves main
MergeStep ==
    /\ pc = "merge"
    /\ LET m == merge_with_existing(all_listings, file)
       IN  IF m.raised
           THEN pc' = "crashed" /\ final' = final
           ELSE pc' = "save" /\ final' = m.unique
    /\ reads' = reads + ReadsOf(file)
    /\ UNCHANGED <<file, idx, all_listings, errors, attempted, run, outright, writes,
                   arg, res>>

\* json.dump(final, f)
Save ==
    /\ pc = "save"
    /\ file' = Stored(final)
    /\ writes' = writes + 1
    /\ pc' = "done"
    /\ UNCHANGED <<idx, all_listings, errors, final, attempted, run, outright, reads,
                   arg, res>>

\* The process is terminated from outside before the save step: its memory
\* is gone, the record of what the run did (attempted, outright, reads,
\* writes) stays
Interrupt ==
    /\ pc \in {"sources", "merge", "save"}
    /\ pc' = "killed"
    /\ idx' = 1
    /\ all_listings' = <<>>
    /\ errors' = <<>>
    /\ final' = <<>>
    /\ UNCHANGED <<file, attempted, run, outright, reads, writes, arg, res>>

\* The next invocation of the program
NextRun ==
    /\ pc \in {"done", "crashed", "killed"}
    /\ run < MaxRuns
    /\ run' = run + 1
    /\ pc' = "sources"
    /\ idx' = 1
    /\ all_listings' = <<>>
    /\ errors' = <<>>
    /\ final' = <<>>
    /\ attempted' = <<>>
    /\ outright' = {}
    /\ reads' = 0
    /\ writes' = 0
    /\ UNCHANGED <<file, arg, res>>

Next == SourceSucceeds \/ SourceFails \/ MergeStep \/ Save \/ Interrupt \/ NextRun

Spec == Init /\ [][Next]_vars

-----------------------------------------------------------------------------
(* SpecNormalize: normalize_listing applied to one raw record *)

LatValues == {Absent, None, Flt(0, 0), Flt(0, 3), Lat0, Str("16.05")}
LngValues == {Absent, Lng0, Str("108.2")}
AddressValues == {Absent, None, Str(""), Str("12 Bach Dang, Hai Chau")}
NameValues == {Absent, None, Str("Office A")}
PostingDateValues ==
    {Absent, None, DateStr(2024, 1, 15), DateStr(2023, 11, 30), DateStr(2025, 3, 1),
     DateStr(2024, 2, 30), Str("3 ngay truoc"), IntV(20240115)}
MonthsValues == {Absent, None, IntV(0), IntV(4)}
GeoAnswers == {Hit(Lat50, Lng0), Miss, Error}
Todays ==
    { [y |-> 2024, m |-> 7, d |-> 15], [y |-> 2024, m |-> 1, d |-> 14],
      [y |-> 2023, m |-> 12, d |-> 31], [y |-> 2025, m |-> 1, d |-> 1] }

RawRecords ==
    [lat : LatValues, lng : LngValues, address : AddressValues, name : NameValues,
     postingDate : PostingDateValues, monthsOnMarket : MonthsValues]

PureIdle ==
    /\ file = Missing
    /\ pc = "pure"
    /\ idx = 1
    /\ all_listings = <<>>
    /\ errors = <<>>
    /\ final = <<>>
    /\ attempted = <<>>
    /\ run = 0
    /\ outright = {}
    /\ reads = 0
    /\ writes = 0

InitNormalize ==
    /\ PureIdle
    /\ arg \in [op : {"normalize"}, raw : RawRecords,
                geo : GeoAnswers \X GeoAnswers, today : Todays]
    /\ res = NoArg

\* normalize_listing(raw, source), and main's loop over a source that
\* returned just this record
NormalizeStep ==
    /\ arg.op = "normalize"
    /\ res = NoArg
    /\ res' = [outcome |-> normalize_listing(arg.raw, Sources[1], arg.geo, arg.today),
               batch |-> NormalizeBatch(<<[raw |-> arg.raw, geo |-> arg.geo]>>,
                                        Sources[1], arg.today)]
    /\ UNCHANGED <<file, pc, idx, all_listings, errors, final, attempted, run, outright,
                   reads, writes, arg>>

SpecNormalize == InitNormalize /\ [][NormalizeStep]_vars

-----------------------------------------------------------------------------
(* SpecMerge: the merge of an existing collection with a new batch *)

\* Longest existing collection and longest new batch
MaxLen == 2

Listing(latUnits) ==
    [name |-> Str("Office"), address |-> Str(""), lat |-> Flt(latUnits, 0),
     lng |-> Round7(Lng0), monthsOnMarket |-> None, source |-> Sources[1]]

\* Listings normalize_listing can produce: on the equator and about 50 m
\* north of it; at 16.05 N and about 50 m, 100.08 m and 150 m north of it
ListingPool ==
    {Listing(u) : u \in {0, 4497, 160500000, 160504497, 160509000, 160513490}}

InitMerge ==
    /\ PureIdle
    /\ arg \in [op : {"merge"}, existing : SeqsUpTo(ListingPool, MaxLen),
                new : SeqsUpTo(ListingPool, MaxLen)]
    /\ res = NoArg

\* merge_with_existing(new) with `existing` as the content of the file
MergeApply ==
    /\ arg.op = "merge"
    /\ res = NoArg
    /\ res' = merge_with_existing(arg.new, Stored(arg.existing))
    /\ UNCHANGED <<file, pc, idx, all_listings, errors, final, attempted, run, outright,
                   reads, writes, arg>>

SpecMerge == InitMerge /\ [][MergeApply]_vars

-----------------------------------------------------------------------------
(* SpecGeocode: geocode_address applied to one address *)

GeocodeAddresses ==
    {Str("12 Bach Dang, Hai Chau"), Str("5 Le Duan, Hai Chau"),
     Str(" 7 Tran Phu ,Son Tra, Da Nang"), Str("Indochina Riverside Tower"), IntV(5)}

GeocodeAnswers == {Hit(Lat0, Lng0), Hit(Lat50, Lng0), Miss, Error}

InitGeocode ==
    /\ PureIdle
    /\ arg \in [op : {"geocode"}, address : GeocodeAddresses,
                geo : GeocodeAnswers \X GeocodeAnswers]
    /\ res = NoArg

GeocodeStep ==
    /\ arg.op = "geocode"
    /\ res = NoArg
    /\ res' = [coords |-> geocode_address(arg.address, arg.geo),
               queries |-> GeocodeQueries(arg.address, arg.geo)]
    /\ UNCHANGED <<file, pc, idx, all_listings, errors, final, attempted, run, outright,
                   reads, writes, arg>>

SpecGeocode == InitGeocode /\ [][GeocodeStep]_vars

-----------------------------------------------------------------------------
(* SpecSources: the source loop of main() on given adapter outcomes *)

InitSources ==
    /\ PureIdle
    /\ arg \in [op : {"sources"}, outs : [1..Len(Sources) -> AdapterOutcomes]]
    /\ res = NoArg

SourcesApply ==
    /\ arg.op = "sources"
    /\ res = NoArg
    /\ res' = RunSources(arg.outs, RunDay)
    /\ UNCHANGED <<file, pc, idx, all_listings, errors, final, attempted, run, outright,
                   reads, writes, arg>>

SpecSources == InitSources /\ [][SourcesApply]_vars

-----------------------------------------------------------------------------
(* Properties *)

IsPrefix(a, b) == Len(a) <= Len(b) /\ SubSeq(b, 1, Len(a)) = a

\* Great-circle distance in metres between two listings, whatever their
\* coordinates are
Distance(a, b) ==
    haversine(Units(a.lat), Units(a.lng), Units(b.lat), Units(b.lng))

Near(a, b) == Distance(a, b) < 100

InRange(v, lo, hi) == IsNumber(v) /\ lo <= Units(v) /\ Units(v) <= hi

\* C1: every Listing of the persisted collection has a latitude in [-90, 90]
\* and a longitude in [-180, 180], both non-null, after any sequence of runs.
C1_CoordinatesValid ==
    file.kind = "list" =>
        \A i \in 1..Len(file.data) :
            ~IsJunk(file.data[i]) =>
                /\ InRange(file.data[i].lat, -900000000, 900000000)
                /\ InRange(file.data[i].lng, -1800000000, 1800000000)

\* C2: merging existing = [A] with new = [B], A and B within 100 m of each
\* other, returns exactly [A]: the first of the two is retained, the second dropped.
C2_FirstWins ==
    (/\ res # NoArg
     /\ Len(arg.existing) = 1
     /\ Len(arg.new) = 1
     /\ Near(arg.existing[1], arg.new[1]))
    => (~res.raised /\ res.unique = <<arg.existing[1]>>)

\* C3: a save never loses, edits or reorders a previously persisted Listing:
\* the collection read by a run is a prefix of the collection the run saves.
C3_NoListingLost ==
    [][(file.kind = "list" /\ file' # file)
        => (file'.kind = "list" /\ IsPrefix(file.data, file'.data))]_vars

\* Witness of C3: the second run is about to save a collection that keeps the
\* listing saved by the first run, adds a new one and drops a new listing
\* that lies within 100 m of the old one.
C3_Witness ==
    /\ run = 2
    /\ pc = "save"
    /\ file.kind = "list"
    /\ Len(file.data) >= 1
    /\ ~IsJunk(file.data[1])
    /\ Len(final) > Len(file.data)
    /\ \E i \in 1..Len(all_listings) :
          /\ all_listings[i] # file.data[1]
          /\ Near(all_listings[i], file.data[1])
          /\ \A j \in 1..Len(final) : final[j] # all_listings[i]

\* C4: merging a collection L with itself as the new batch yields exactly
\* deduplicate(L).
C4_IdempotentRemerge ==
    (res # NoArg /\ arg.new = arg.existing) => res = deduplicate(arg.existing)

Concat == arg.existing \o arg.new

Retained(x) == \E k \in 1..Len(res.unique) : res.unique[k] = x

\* No element of the concatenation other than those at i and j lies within
\* 100 m of either of them
Isolated(i, j) ==
    \A k \in 1..Len(Concat) :
        k \notin {i, j} => (~Near(Concat[k], Concat[i]) /\ ~Near(Concat[k], Concat[j]))

\* C5: two Listings 50 m apart with nothing else near them are merged into
\* one (the first is retained, the second is not), and two Listings 150 m
\* apart with nothing else near them are both retained.
C5_ProximityBoundary ==
    res # NoArg =>
        \A i, j \in 1..Len(Concat) :
            (i < j /\ Isolated(i, j)) =>
                /\ Distance(Concat[i], Concat[j]) = 50
                     => (Retained(Concat[i]) /\ ~Retained(Concat[j]))
                /\ Distance(Concat[i], Concat[j]) = 150
                     => (Retained(Concat[i]) /\ Retained(Concat[j]))

HasNoCoordinates(raw) == raw.lat \in {Absent, None} \/ raw.lng \in {Absent, None}
HasNoAddress(raw) == raw.address \in {Absent, None, Str("")}

\* The record has to be geocoded and the resolver reports no coordinates
GeocodingFails(raw, geo) ==
    /\ HasNoCoordinates(raw)
    /\ ~HasNoAddress(raw)
    /\ geocode_address(raw.address, geo) = <<None, None>>

\* C6: a raw record with no address and no coordinates, or one whose
\* geocoding yields no coordinates, is discarded by normalize and adds
\* nothing to the batch of its source.
C6_DiscardUnlocated ==
    (/\ res # NoArg
     /\ \/ (HasNoCoordinates(arg.raw) /\ HasNoAddress(arg.raw))
        \/ GeocodingFails(arg.raw, arg.geo))
    => (/\ res.outcome = Discarded
        /\ res.batch = [raised |-> FALSE, normalized |-> <<>>])

\* Witness of C6: normalize has discarded a record without address and
\* coordinates whose other fields are all present.
C6_Witness ==
    /\ res # NoArg
    /\ HasNoCoordinates(arg.raw)
    /\ HasNoAddress(arg.raw)
    /\ arg.raw.name = Str("Office A")
    /\ arg.raw.postingDate = DateStr(2024, 1, 15)
    /\ arg.raw.monthsOnMarket = IntV(4)
    /\ res.outcome = Discarded

DateBefore(a, b) ==
    \/ a.y < b.y
    \/ (a.y = b.y /\ a.m < b.m)
    \/ (a.y = b.y /\ a.m = b.m /\ a.d < b.d)

\* Calendar months from 0001-01 to the month of the date
MonthIndex(dt) == 12 * dt.y + dt.m

DerivesMonths ==
    /\ res # NoArg
    /\ res.outcome.kind = "listing"
    /\ arg.raw.monthsOnMarket \in {Absent, None}
    /\ StrptimeOk(arg.raw.postingDate)

\* C7: without an explicit monthsOnMarket and with a valid ISO posting date,
\* the Listing's monthsOnMarket is the calendar-month difference between
\* today and the posting date, 0 when today is before the posting date, never
\* negative; posted 2024-01-15 and normalized on 2024-07-15 it is 6.
C7_DerivedMonths ==
    DerivesMonths =>
        LET months == res.outcome.listing.monthsOnMarket
            posted == arg.raw.postingDate
        IN  /\ months.t = "int"
            /\ months.n >= 0
            /\ DateBefore(arg.today, posted) => months.n = 0
            /\ ~DateBefore(arg.today, posted)
                 => months.n = MonthIndex(arg.today) - MonthIndex(posted)
            /\ (posted = DateStr(2024, 1, 15) /\ arg.today = [y |-> 2024, m |-> 7, d |-> 15])
                 => months.n = 6

\* Witness of C7: the record posted 2024-01-15 normalized on 2024-07-15 gave
\* a Listing with monthsOnMarket = 6.
C7_Witness ==
    /\ DerivesMonths
    /\ arg.raw.postingDate = DateStr(2024, 1, 15)
    /\ arg.today = [y |-> 2024, m |-> 7, d |-> 15]
    /\ res.outcome.listing.monthsOnMarket = IntV(6)

\* C8: normalize ends with a Listing or the discard outcome for every raw
\* record, and the loop over the record's source is not aborted.
C8_NoExceptionEscapes ==
    res # NoArg => (res.outcome.kind \in {"listing", "discard"} /\ ~res.batch.raised)

\* The file parses to a sequence of Listing records
IsListingCollection(f) ==
    f.kind = "list" /\ \A i \in 1..Len(f.data) : ~IsJunk(f.data[i])

\* C9: when the persisted collection is missing, unreadable, unparsable or
\* not a sequence of Listing records, the merge completes and returns exactly
\* deduplicate(new listings), which the run goes on to save.
C9_ReadFailureDegrades ==
    (pc \in {"save", "crashed"} /\ ~IsListingCollection(file))
    => (pc = "save" /\ final = deduplicate(all_listings).unique)

ErrorSources == [i \in 1..Len(errors) |-> errors[i][1]]

\* Position of a source name in SCRAPERS
Position(name) == CHOOSE i \in 1..Len(Sources) : Sources[i] = name

C10_State ==
    /\ attempted = SubSeq(Sources, 1, Len(attempted))
    /\ pc = "sources" => Len(attempted) = idx - 1
    /\ pc \in {"merge", "save", "done", "crashed"} => attempted = Sources
    /\ \A i \in 1..Len(errors) :
          /\ Position(ErrorSources[i]) <= Len(attempted)
          /\ \A j \in 1..Len(errors) :
                i < j => Position(ErrorSources[i]) < Position(ErrorSources[j])

C10_Step ==
    (pc = "sources" /\ attempted' # attempted) =>
        /\ attempted' = Append(attempted, Sources[idx])
        /\ \/ errors' = errors /\ IsPrefix(all_listings, all_listings')
           \/ /\ Len(errors') = Len(errors) + 1
              /\ IsPrefix(errors, errors')
              /\ errors'[Len(errors')][1] = Sources[idx]
              /\ all_listings' = all_listings

\* C10: in every run the sources are attempted once each, in configured
\* order, whatever failed before; a failing source adds one (identifier,
\* message) pair for itself to errors and leaves the listings collected so
\* far untouched; when the loop is left every source has been attempted.
C10_SourceIsolation == []C10_State /\ [][C10_Step]_vars

\* Witness of C10: the first source failed, the second was still attempted
\* and its listings were collected.
C10_Witness ==
    /\ pc = "merge"
    /\ Len(errors) = 1
    /\ errors[1][1] = Sources[1]
    /\ attempted = Sources
    /\ Len(all_listings) >= 1
    /\ \A i \in 1..Len(all_listings) : all_listings[i].source = Sources[2]

\* C11: main returns failure (1) exactly when at least one source of the run
\* failed outright (its adapter raised or its page fetching failed
\* entirely); nothing else makes it return failure, and a run with a source
\* that failed outright never returns success.
C11_ExitSignal ==
    pc = "done" => (ExitCode(errors) = 1 <=> outright # {})

C12_State ==
    /\ reads <= 1
    /\ writes <= 1
    /\ pc \in {"sources", "merge"} => (reads = 0 /\ writes = 0)
    /\ pc \in {"save", "crashed", "killed"} => writes = 0
    /\ writes = 1 => (pc = "done" /\ attempted = Sources /\ file = Stored(final))

C12_Step ==
    file' # file => (pc = "save" /\ pc' = "done" /\ attempted = Sources)

\* C12: a run reads the persisted collection at most once, not before the
\* merge step, and writes it at most once, only after every configured
\* source has been attempted and the merge has completed; no other step
\* changes it, so a run interrupted before the save step leaves it as it was.
C12_SingleWrite == []C12_State /\ [][C12_Step]_vars

\* Witness of C12: the second run was interrupted after its merge had read
\* the collection saved by the first run and before its save.
C12_Witness ==
    /\ pc = "killed"
    /\ run = 2
    /\ reads = 1
    /\ writes = 0
    /\ file.kind = "list"
    /\ Len(file.data) >= 1
    /\ ~IsJunk(file.data[1])

NotFound == <<None, None>>

CoordsOf(answer) == <<answer.lat, answer.lng>>

\* C13: the resolver first queries the full address; when that attempt
\* matches it returns its coordinates; when it fails (no match, timeout or
\* service error) the resolver queries the first comma-delimited segment
\* with the simplified qualifier and returns that attempt's coordinates, or
\* NotFound when the second attempt has failed too.
C13_TwoTier ==
    (res # NoArg /\ arg.address.t = "str") =>
        /\ res.queries[1] = [text |-> arg.address.s, qualifier |-> "full"]
        /\ arg.geo[1].r = "hit"
             => (Len(res.queries) = 1 /\ res.coords = CoordsOf(arg.geo[1]))
        /\ arg.geo[1].r # "hit"
             => /\ Len(res.queries) = 2
                /\ res.queries[2] = [text |-> FirstSegment(arg.address.s),
                                     qualifier |-> "simplified"]
                /\ arg.geo[2].r = "hit" => res.coords = CoordsOf(arg.geo[2])
                /\ arg.geo[2].r # "hit" => res.coords = NotFound

Placeholder == Str("Unknown Office")

IsMissing(v) == v.t \in {"absent", "none"}

\* C14: every Listing produced by normalize has a non-null name and a
\* non-null address; a raw record whose name is missing (key absent or value
\* null) yields the placeholder name, one whose address is missing yields
\* the empty address.
C14_StringDefaulting ==
    (res # NoArg /\ res.outcome.kind = "listing") =>
        LET l == res.outcome.listing
        IN  /\ l.name.t # "none"
            /\ l.address.t # "none"
            /\ IsMissing(arg.raw.name) => l.name = Placeholder
            /\ IsMissing(arg.raw.address) => l.address = Str("")

\* The elements of seq at the positions of S, in the order of seq
Restrict(seq, S) ==
    LET F[i \in 0..Len(seq)] ==
            IF i = 0 THEN <<>>
            ELSE IF i \in S THEN Append(F[i - 1], seq[i]) ELSE F[i - 1]
    IN  F[Len(seq)]

CarriesCoordinates(l) == IsNumber(l.lat) /\ IsNumber(l.lng)

\* The output is the input restricted to the positions of S, and every
\* position left out holds a listing within 100 m of an earlier kept one
KeptAt(S, input, output) ==
    /\ output = Restrict(input, S)
    /\ \A i \in (1..Len(input)) \ S :
           \E k \in S : k < i /\ Near(input[k], input[i])

Separated(output) ==
    \A i, j \in 1..Len(output) :
        (i < j /\ CarriesCoordinates(output[i]) /\ CarriesCoordinates(output[j]))
            => ~Near(output[i], output[j])

\* C15: the output of deduplicate is a subsequence of its input, no two of
\* its Listings that both carry coordinates lie within 100 m of each other,
\* every omitted Listing lies within 100 m of an earlier Listing of the
\* input that is in the output, and deduplicating the output changes nothing.
C15_OutputSeparation ==
    res # NoArg =>
        /\ ~res.raised
        /\ \E S \in SUBSET (1..Len(Concat)) : KeptAt(S, Concat, res.unique)
        /\ Separated(res.unique)
        /\ deduplicate(res.unique) = res

\* What normalize makes of each record the adapter of source i returned
OutcomesOf(i) ==
    LET items == scrape(arg.outs[i])
    IN  [k \in 1..Len(items) |->
            normalize_listing(items[k].raw, Sources[i], items[k].geo, RunDay)]

IsListingOutcome(o) == o.kind = "listing"

\* The Listings normalize produced for source i, in the adapter's order
ListingsOf(i) ==
    LET kept == SelectSeq(OutcomesOf(i), IsListingOutcome)
    IN  [k \in 1..Len(kept) |-> kept[k].listing]

\* Nothing raised while source i was processed
Completed(i) ==
    /\ arg.outs[i].fetch # "raised"
    /\ \A k \in 1..Len(OutcomesOf(i)) : OutcomesOf(i)[k].kind # "raise"

\* The listings of the completed sources among the first n, in source order
CompletedBatch(n) ==
    LET F[i \in 0..n] ==
            IF i = 0 THEN <<>>
            ELSE IF Completed(i) THEN F[i - 1] \o ListingsOf(i) ELSE F[i - 1]
    IN  F[n]

\* C16: the batch handed to the merge holds exactly the normalized listings
\* of the sources that completed, in configured source order and in each
\* adapter's output order; a source whose processing raised contributes
\* nothing, not even the listings normalized before the failure, and it is
\* the sources that raised that are recorded as errors.
C16_AllOrNothing ==
    res # NoArg =>
        /\ res.all_listings = CompletedBatch(Len(Sources))
        /\ \A i \in 1..Len(Sources) :
               ~Completed(i) <=> (\E k \in 1..Len(res.errors) : res.errors[k][1] = Sources[i])

\* Witness of C16: the first source raised on its second record after its
\* first had been normalized into a Listing, the second source completed,
\* and the batch holds the second source's listings only.
C16_Witness ==
    /\ res # NoArg
    /\ Len(OutcomesOf(1)) = 2
    /\ OutcomesOf(1)[1].kind = "listing"
    /\ OutcomesOf(1)[2].kind = "raise"
    /\ Completed(2)
    /\ Len(ListingsOf(2)) = 2
    /\ res.all_listings = ListingsOf(2)

====
